---- MODULE Spec2Model ----
(***************************************************************************)
(* A model of the hybrid peer-to-peer file sharing programs:               *)
(*   tracker.py  the registry of peer addresses                            *)
(*   alice.py    the sender: split_file, get_peers, send_chunks_to_peer    *)
(*   peer.py     the peer server: one handler thread per connection        *)
(*   bob.py      the receiver: download_chunk, reconstruct_file            *)
(*                                                                         *)
(* File names, wire sentinels and file contents are byte strings, written  *)
(* as sequences of byte values (ASCII codes for text).  A directory is a   *)
(* function from the names of its files to their contents.                 *)
(***************************************************************************)
EXTENDS Integers, Sequences, FiniteSets, TLC

VARIABLES
    srcExists,    \* alice: does the path given to split_file exist
    srcFile,      \* alice: the bytes of the source file
    chunkSize,    \* alice: the chunk_size argument of split_file
    chunksDir,    \* alice: the directory "chunks"
    splitRet,     \* alice: the list split_file returned
    alicePc,      \* alice: position in the main program
    downloads,    \* bob: the directory DOWNLOAD_DIR ("bob_downloads")
    reconRet,     \* bob: what reconstruct_file returned ("none" before it ran)
    bobPc,        \* bob: position in main
    peers,        \* tracker: the list of registered peers
    trackerUp,    \* tracker: is the process running
    backlog,      \* tracker: connections made and not yet accepted, oldest first
    tconn,        \* tracker: the connection accepted and not yet closed
    replies,      \* tracker clients: the response each connection received
    regLog,       \* history: the peer_info of every registration handled, in order
    nextConn,     \* history: the number of connections made to the tracker
    store,        \* peers: the directory "received_chunks" of each peer
    conns,        \* peers: the connections to peers, both ends of each
    pushDone,     \* history: <<peer, name, payload>> of every push read to its end
    splitFrom,    \* history: what "chunks" held when split_file was last called
    alicePeers,   \* alice: the list get_peers returned
    aliceTodo,    \* alice: the peers the for loop of the main program has yet to visit
    aliceCur,     \* alice: the peer send_chunks_to_peer was called with
    aliceQueue,   \* alice: the chunk files send_chunks_to_peer has yet to visit
    aliceSent,    \* alice: success_count
    aliceLog,     \* history: peer, chunk and outcome of every connection alice made
    peerUp,       \* peers: is the peer process running
    bobPeers,     \* bob: all_peers, the list get_peer_list returned
    bobTodo,      \* bob: the peers the for loop of main has yet to visit
    bobCur,       \* bob: the peer of the current round of that loop
    bobQueue,     \* bob: the names of available_chunks the inner loop has yet to visit
    bobDownloaded,\* bob: downloaded_chunks
    bobListed,    \* history: the peers bob asked for their list, in order
    bobLog        \* history: peer, chunk, outcome and result of every download_chunk call

fileVars == <<srcExists, srcFile, chunkSize, splitFrom, chunksDir, splitRet, alicePc,
              downloads, reconRet, bobPc>>

trackerVars == <<peers, trackerUp, backlog, tconn, replies, regLog, nextConn>>

peerVars == <<store, conns, pushDone>>

senderVars == <<alicePeers, aliceTodo, aliceCur, aliceQueue, aliceSent, aliceLog>>

receiverVars == <<peerUp, bobPeers, bobTodo, bobCur, bobQueue, bobDownloaded,
                  bobListed, bobLog>>

vars == <<fileVars, trackerVars, peerVars, senderVars, receiverVars>>

-----------------------------------------------------------------------------
(* Bounds of the model *)

MaxFileLen == 12
MaxChunkSize == 3
MaxTrackerConns == 5
MaxPeerConns == 2
BufCap == 1
MaxSendLen == 2
MaxCut == 1
MaxRecvPeers == 2
MaxPartialLen == 3
MaxRecvPieces == 3
MaxBothLen == 1

\* the longest file of a sequence of splits
MaxResplitLen == 4
MaxE2ELen == 3
DefaultChunkSize == 1        \* stands for the default chunk_size of split_file, 1 MiB

Bytes == {0, 1}

Min(a, b) == IF a < b THEN a ELSE b

\* every byte string of length 0..n over Bytes
RECURSIVE FilesUpTo(_)
FilesUpTo(n) ==
    IF n = 0 THEN {<<>>}
    ELSE LET shorter == FilesUpTo(n - 1)
         IN  shorter \cup {Append(f, b) : f \in {g \in shorter : Len(g) = n - 1}, b \in Bytes}

-----------------------------------------------------------------------------
(* Literal strings of the programs, as ASCII *)

CHUNK_PREFIX == <<99, 104, 117, 110, 107, 95>>                 \* "chunk_"
PART_SUFFIX == <<46, 112, 97, 114, 116>>                       \* ".part"
METADATA_NAME ==                                               \* "file_metadata.json"
    <<102, 105, 108, 101, 95, 109, 101, 116, 97, 100, 97, 116, 97, 46, 106, 115, 111, 110>>
OUTPUT_FILE ==                                                 \* "reconstructed_file"
    <<114, 101, 99, 111, 110, 115, 116, 114, 117, 99, 116, 101, 100, 95, 102, 105, 108, 101>>
SRC_BASENAME == <<102, 46, 98, 105, 110>>                      \* "f.bin", the path alice is given
SRC_EXTENSION == <<46, 98, 105, 110>>                          \* ".bin"
READY_TO_SEND == <<82, 69, 65, 68, 89, 95, 84, 79, 95, 83, 69, 78, 68>>
READY_ACK == <<82, 69, 65, 68, 89, 95, 65, 67, 75>>
REQUEST_CHUNKS == <<82, 69, 81, 85, 69, 83, 84, 95, 67, 72, 85, 78, 75, 83>>
REQUEST_CHUNK == <<82, 69, 81, 85, 69, 83, 84, 95, 67, 72, 85, 78, 75>>
REQUEST_ACK == <<82, 69, 81, 85, 69, 83, 84, 95, 65, 67, 75>>
NOT_FOUND == <<78, 79, 84, 95, 70, 79, 85, 78, 68>>
HELLO == <<72, 69, 76, 76, 79>>                                \* a request no peer knows

-----------------------------------------------------------------------------
(* Directories *)

EmptyDir == [n \in {} |-> <<>>]

Put(dir, name, content) ==
    [n \in (DOMAIN dir) \cup {name} |-> IF n = name THEN content ELSE dir[n]]

Remove(dir, name) == [n \in (DOMAIN dir) \ {name} |-> dir[n]]

-----------------------------------------------------------------------------
(* Strings *)

\* str(i) for i >= 0: the decimal digits, most significant first
RECURSIVE Digits(_)
Digits(i) == IF i < 10 THEN <<48 + i>> ELSE Digits(i \div 10) \o <<48 + (i % 10)>>

\* f"chunk_{i}.part"
ChunkName(i) == CHUNK_PREFIX \o Digits(i) \o PART_SUFFIX

StartsWith(s, p) == Len(s) >= Len(p) /\ SubSeq(s, 1, Len(p)) = p

EndsWith(s, p) == Len(s) >= Len(p) /\ SubSeq(s, Len(s) - Len(p) + 1, Len(s)) = p

\* Python's str < str: code point by code point, a proper prefix is smaller
RECURSIVE LexLessFrom(_, _, _)
LexLessFrom(a, b, i) ==
    IF i > Len(a) THEN i <= Len(b)
    ELSE IF i > Len(b) THEN FALSE
    ELSE IF a[i] < b[i] THEN TRUE
    ELSE IF a[i] > b[i] THEN FALSE
    ELSE LexLessFrom(a, b, i + 1)

LexLess(a, b) == LexLessFrom(a, b, 1)

\* sorted(names) of a list of distinct strings
RECURSIVE Sorted(_)
Sorted(S) ==
    IF S = {} THEN <<>>
    ELSE LET m == CHOOSE x \in S : \A y \in S : x = y \/ LexLess(x, y)
         IN  <<m>> \o Sorted(S \ {m})

-----------------------------------------------------------------------------
(* The metadata file.  json.dump writes the four fields of file_metadata;  *)
(* the text is modelled as size, chunk_count, the length of the file name, *)
(* the file name and the extension, one after the other.                   *)

MetadataDump(md) ==
    <<md.size, md.chunk_count, Len(md.original_filename)>>
        \o md.original_filename \o md.extension

\* json.load succeeds on the text MetadataDump writes and on nothing shorter
MetadataValid(b) == Len(b) >= 3 /\ b[3] >= 0 /\ Len(b) >= 3 + b[3]

MetadataLoad(b) ==
    [size |-> b[1], chunk_count |-> b[2],
     original_filename |-> SubSeq(b, 4, 3 + b[3]),
     extension |-> SubSeq(b, 4 + b[3], Len(b))]

-----------------------------------------------------------------------------
(* alice.py: split_file *)

\* a plausible slip: a window that is not full is taken for the end of the file
ReadChunkFullOnly(f, pos, size) ==
    IF pos + size <= Len(f) THEN SubSeq(f, pos + 1, pos + size) ELSE <<>>

\* f.read(chunk_size) at offset pos of a regular file
ReadChunk(f, pos, size) == SubSeq(f, pos + 1, Min(pos + size, Len(f)))

\* the while True loop: returns the directory, the list of names and the counter i
RECURSIVE SplitLoop(_, _, _, _, _, _)
SplitLoop(f, pos, size, i, dir, chunks) ==
    LET chunk == ReadChunk(f, pos, size)
    IN  IF chunk = <<>>
        THEN [dir |-> dir, chunks |-> chunks, i |-> i]
        ELSE SplitLoop(f, pos + Len(chunk), size, i + 1,
                       Put(dir, ChunkName(i), chunk), Append(chunks, ChunkName(i)))

\* a plausible slip: the files of an earlier split are left in place
ClearChunksKeep(dir) == dir

\* for filename in os.listdir(chunks_dir): os.remove, every entry of the
\* directory being a regular file
ClearChunks(dir) == EmptyDir

\* split_file(file_path, chunk_size): the "chunks" directory is cleared first
SplitFile(size) ==
    /\ alicePc = "start"
    /\ splitFrom' = chunksDir
    /\ IF ~srcExists
       THEN /\ chunksDir' = ClearChunks(chunksDir)
            /\ splitRet' = <<>>
       ELSE LET r == SplitLoop(srcFile, 0, size, 0, ClearChunks(chunksDir), <<>>)
                file_metadata == [original_filename |-> SRC_BASENAME,
                                  extension |-> SRC_EXTENSION,
                                  size |-> Len(srcFile),
                                  chunk_count |-> r.i]
            IN  /\ chunksDir' = Put(r.dir, METADATA_NAME, MetadataDump(file_metadata))
                /\ splitRet' = Append(r.chunks, METADATA_NAME)
    /\ alicePc' = "split"
    /\ UNCHANGED <<srcExists, srcFile, chunkSize, downloads, reconRet, bobPc>>
    /\ UNCHANGED <<trackerVars, peerVars, senderVars, receiverVars>>

-----------------------------------------------------------------------------
(* bob.py: reconstruct_file *)

\* the chunk files reconstruct_file finds in DOWNLOAD_DIR
ChunkFilesIn(dir) ==
    {n \in DOMAIN dir : StartsWith(n, CHUNK_PREFIX) /\ EndsWith(n, PART_SUFFIX)}

\* the for loop that writes each chunk to the output, in the order of the list
RECURSIVE Concat(_, _)
Concat(dir, names) ==
    IF names = <<>> THEN <<>> ELSE dir[Head(names)] \o Concat(dir, Tail(names))

\* get_file_metadata and the choice of output_path
OutputName(dir) ==
    IF METADATA_NAME \in DOMAIN dir /\ MetadataValid(dir[METADATA_NAME])
    THEN MetadataLoad(dir[METADATA_NAME]).original_filename
    ELSE OUTPUT_FILE

\* every pull of bob's download loop succeeded: DOWNLOAD_DIR holds what alice split
FetchAll ==
    /\ alicePc = "split"
    /\ bobPc = "start"
    /\ downloads' = chunksDir
    /\ bobPc' = "fetched"
    /\ UNCHANGED <<srcExists, srcFile, chunkSize, splitFrom, chunksDir, splitRet, alicePc,
                   reconRet>>
    /\ UNCHANGED <<trackerVars, peerVars, senderVars, receiverVars>>

\* some pulls of bob's download loop failed: DOWNLOAD_DIR holds the files
\* named in S of what alice split
FetchSubset(S) ==
    /\ alicePc = "split"
    /\ bobPc = "start"
    /\ downloads' = [n \in S |-> chunksDir[n]]
    /\ bobPc' = "fetched"
    /\ UNCHANGED <<srcExists, srcFile, chunkSize, splitFrom, chunksDir, splitRet, alicePc,
                   reconRet>>
    /\ UNCHANGED <<trackerVars, peerVars, senderVars, receiverVars>>

ReconstructFile ==
    /\ bobPc = "fetched"
    /\ LET chunk_files == Sorted(ChunkFilesIn(downloads))
           output == Concat(downloads, chunk_files)
       IN  IF chunk_files = <<>>
           THEN /\ reconRet' = "False"
                /\ downloads' = downloads
           ELSE /\ downloads' = Put(downloads, OutputName(downloads), output)
                /\ reconRet' = IF output = <<>> THEN "False" ELSE "True"
    /\ bobPc' = "done"
    /\ UNCHANGED <<srcExists, srcFile, chunkSize, splitFrom, chunksDir, splitRet, alicePc>>
    /\ UNCHANGED <<trackerVars, peerVars, senderVars, receiverVars>>

-----------------------------------------------------------------------------
(* tracker.py.  The tracker decodes what it receives to a str; a request    *)
(* is modelled as the list of its words, the wire text being the words      *)
(* joined by single blanks.                                                 *)

PeerAddrs == {"127.0.0.1:5001", "127.0.0.1:5002", "127.0.0.1:5003"}

\* what a client of the tracker may send: the three requests of the protocol,
\* a REGISTER_PEER without address, nothing at all (the client closed), and
\* a request the tracker does not know
TrackerRequests ==
    {<<"GET_PEERS">>, <<"REGISTER_PEER">>, <<>>, <<"HELLO">>}
        \cup {<<"REGISTER_PEER", a>> : a \in PeerAddrs}

NoConn == [id |-> 0, req |-> <<>>]

Range(s) == {s[i] : i \in DOMAIN s}

\* slips a registry may make: no membership test, insertion at the front,
\* the list overwritten
RegisterPeerNoCheck(ps, peer_info) == Append(ps, peer_info)

RegisterPeerFront(ps, peer_info) ==
    IF peer_info \notin Range(ps) THEN <<peer_info>> \o ps ELSE ps

RegisterPeerReplace(ps, peer_info) ==
    IF peer_info \notin Range(ps) THEN <<peer_info>> ELSE ps

\* if peer_info not in peers: peers.append(peer_info)
RegisterPeer(ps, peer_info) ==
    IF peer_info \notin Range(ps) THEN Append(ps, peer_info) ELSE ps

\* a client (peer.register_with_tracker, alice.get_peers, bob.get_peer_list or
\* any other) connects and sends its request; the connection waits in the
\* listen queue
TrackerConnect(req) ==
    /\ nextConn < MaxTrackerConns
    /\ nextConn' = nextConn + 1
    /\ backlog' = Append(backlog, [id |-> nextConn + 1, req |-> req])
    /\ UNCHANGED <<peers, trackerUp, tconn, replies, regLog>>
    /\ UNCHANGED <<fileVars, peerVars, senderVars, receiverVars>>

\* connection, address = tracker_socket.accept()
TrackerAccept ==
    /\ trackerUp
    /\ tconn = NoConn
    /\ backlog # <<>>
    /\ tconn' = Head(backlog)
    /\ backlog' = Tail(backlog)
    /\ UNCHANGED <<peers, trackerUp, replies, regLog, nextConn>>
    /\ UNCHANGED <<fileVars, peerVars, senderVars, receiverVars>>

\* the rest of the loop body: recv, the dispatch on the request, close.
\* "_, peer_info = request.strip().split(' ', 1)" raises ValueError when the
\* request has no second word; nothing catches it and the process ends.
TrackerHandle ==
    /\ trackerUp
    /\ tconn # NoConn
    /\ LET request == tconn.req
       IN  IF request = <<"GET_PEERS">>
           THEN /\ replies' = Put(replies, tconn.id, [list |-> peers, at |-> Len(regLog)])
                /\ tconn' = NoConn
                /\ UNCHANGED <<peers, trackerUp, regLog>>
           ELSE IF Len(request) >= 1 /\ request[1] = "REGISTER_PEER"
           THEN IF Len(request) < 2
                THEN /\ trackerUp' = FALSE
                     /\ UNCHANGED <<peers, tconn, replies, regLog>>
                ELSE /\ peers' = RegisterPeer(peers, request[2])
                     /\ regLog' = Append(regLog, request[2])
                     /\ tconn' = NoConn
                     /\ UNCHANGED <<trackerUp, replies>>
           ELSE /\ tconn' = NoConn
                /\ UNCHANGED <<peers, trackerUp, replies, regLog>>
    /\ UNCHANGED <<backlog, nextConn>>
    /\ UNCHANGED <<fileVars, peerVars, senderVars, receiverVars>>

-----------------------------------------------------------------------------
(* peer.py, and the two ends that talk to it: alice.send_chunks_to_peer     *)
(* (one connection for each chunk) and bob.request_chunks_from_peer and     *)
(* bob.download_chunk.                                                      *)
(*                                                                          *)
(* A connection is a record of both ends.  toS and toC are the byte strings *)
(* sent and not yet received, one element for each sendall (a payload is    *)
(* sent piece by piece); cEnd and sEnd tell whether the client's and the    *)
(* peer's end is open.  recv returns the oldest element, or the empty       *)
(* string once the other end has closed, and blocks otherwise.              *)

ConnIds == 1..MaxPeerConns

ThePeer == "127.0.0.1:5001"

\* the names and payloads the clients of the peer use
PeerNames == {ChunkName(0), ChunkName(1)}
Payloads == {<<1>>, <<0, 1>>}

FreeConn ==
    [kind |-> "free", peer |-> ThePeer, cpc |-> "done", spc |-> "done",
     toS |-> <<>>, toC |-> <<>>, cEnd |-> "open", sEnd |-> "open",
     name |-> <<>>, data |-> <<>>, sent |-> 0,
     fname |-> <<>>, wbuf |-> <<>>, pos |-> 0,
     result |-> "none", listing |-> <<>>]

\* every order os.listdir may return the names of a directory in
RECURSIVE Orderings(_)
Orderings(S) ==
    IF S = {} THEN {<<>>}
    ELSE UNION {{<<x>> \o t : t \in Orderings(S \ {x})} : x \in S}

\* a write of the file object at offset pos: bytes past the end of the file
\* leave a hole of zero bytes
WriteAt(content, pos, bytes) ==
    IF bytes = <<>> THEN content
    ELSE [i \in 1..(IF Len(content) > pos + Len(bytes) THEN Len(content) ELSE pos + Len(bytes)) |->
            IF i > pos /\ i <= pos + Len(bytes) THEN bytes[i - pos]
            ELSE IF i <= Len(content) THEN content[i]
            ELSE 0]

\* f.write(data) of a buffered file object: the bytes stay in the buffer while
\* they fit, else the buffer is written out first (BufCap stands for the
\* buffer size, a recv never returning more than fits)
BufWrite(wbuf, data) ==
    IF Len(wbuf) + Len(data) <= BufCap
    THEN [out |-> <<>>, wbuf |-> wbuf \o data]
    ELSE [out |-> wbuf, wbuf |-> data]

\* the peer's recv returns (data, the end of the stream or a reset)
CanRecvS(k) == k.toS # <<>> \/ k.cEnd # "open"
\* the client's recv returns
CanRecvC(k) == k.toC # <<>> \/ k.sEnd # "open"

\* bob talks to one peer at a time: no list or pull connection of his is open
BobIdle == \A c \in ConnIds : conns[c].kind \in {"list", "pull"} => conns[c].cpc = "done"

\* a client connects and sends its request; the peer accepts and starts a
\* handle_client thread.  Connections are numbered in the order they are made.
ClientOpen(c, p, kind, name, data) ==
    /\ conns[c].kind = "free"
    /\ \A b \in ConnIds : b < c => conns[b].kind # "free"
    /\ kind \in {"list", "pull"} => BobIdle
    /\ conns' = [conns EXCEPT ![c] =
          [FreeConn EXCEPT
             !.kind = kind, !.peer = p, !.name = name, !.data = data,
             !.cpc = IF kind = "other" THEN "close" ELSE "wait",
             !.spc = "recv_req",
             !.toS = <<CASE kind = "push" -> READY_TO_SEND
                         [] kind = "list" -> REQUEST_CHUNKS
                         [] kind = "pull" -> REQUEST_CHUNK
                         [] OTHER -> HELLO>>]]
    /\ UNCHANGED <<store, pushDone>>
    /\ UNCHANGED <<fileVars, trackerVars, senderVars, receiverVars>>

\* the client's end goes away before the exchange is over: the process is
\* stopped or the network cut; the peer sees the end of the stream or a reset
ClientAbort(c, how) ==
    /\ conns[c].cpc # "done"
    /\ conns' = [conns EXCEPT ![c].cpc = "done", ![c].cEnd = how, ![c].result = "aborted"]
    /\ UNCHANGED <<store, pushDone>>
    /\ UNCHANGED <<fileVars, trackerVars, senderVars, receiverVars>>

\* a client that sent an unknown request closes
OtherClientClose(c) ==
    /\ conns[c].kind = "other" /\ conns[c].cpc = "close"
    /\ conns' = [conns EXCEPT ![c].cpc = "done", ![c].cEnd = "fin"]
    /\ UNCHANGED <<store, pushDone>>
    /\ UNCHANGED <<fileVars, trackerVars, senderVars, receiverVars>>

\* handle_request_chunks: the names of the files in received_chunks
AvailableChunks(dir) == Orderings(DOMAIN dir)

\* handle_client: recv of the request and the dispatch; for REQUEST_CHUNKS the
\* whole of handle_request_chunks, for the other two the handler's first send
HandleClient(c) ==
    LET k == conns[c]
        request == IF k.toS # <<>> THEN Head(k.toS) ELSE <<>>
        closed == [k EXCEPT !.toS = <<>>, !.spc = "done", !.sEnd = "closed"]
    IN  /\ k.spc = "recv_req"
        /\ CanRecvS(k)
        /\ IF k.toS = <<>> /\ k.cEnd = "rst"
           THEN conns' = [conns EXCEPT ![c] = closed]
           ELSE IF request = REQUEST_CHUNKS
           THEN \E available_chunks \in AvailableChunks(store[k.peer]) :
                   conns' = [conns EXCEPT ![c] =
                                [closed EXCEPT !.toC = Append(k.toC, available_chunks)]]
           ELSE IF request = REQUEST_CHUNK
           THEN conns' = [conns EXCEPT ![c].toS = Tail(k.toS), ![c].spc = "pull_name",
                                       ![c].toC = Append(k.toC, REQUEST_ACK)]
           ELSE IF request = READY_TO_SEND
           THEN conns' = [conns EXCEPT ![c].toS = Tail(k.toS), ![c].spc = "push_name",
                                       ![c].toC = Append(k.toC, READY_ACK)]
           ELSE conns' = [conns EXCEPT ![c] = closed]
        /\ UNCHANGED <<store, pushDone>>
        /\ UNCHANGED <<fileVars, trackerVars, senderVars, receiverVars>>

\* the bytes of the first n writes waiting in a stream, as one recv returns
\* them when they have run together
RECURSIVE JoinFirst(_, _)
JoinFirst(q, n) == IF n = 0 THEN <<>> ELSE JoinFirst(q, n - 1) \o q[n]

\* handle_incoming_chunk after the ack: recv of the chunk name and open of the
\* file for writing, which creates it empty.  The stream knows no message
\* ends: the recv returns what has arrived, the name alone or the name and
\* the pieces of the payload that followed it, n writes in all.  At the end
\* of the stream the name is empty, open raises and the handler ends.
PushRecvName(c, n) ==
    LET k == conns[c]
    IN  /\ k.spc = "push_name"
        /\ CanRecvS(k)
        /\ IF k.toS # <<>>
           THEN /\ n <= Len(k.toS)
                /\ LET chunk_file_name == JoinFirst(k.toS, n)
                   IN  /\ store' = [store EXCEPT ![k.peer] = Put(@, chunk_file_name, <<>>)]
                       /\ conns' = [conns EXCEPT ![c].toS = SubSeq(k.toS, n + 1, Len(k.toS)),
                                                 ![c].spc = "push_data",
                                                 ![c].fname = chunk_file_name,
                                                 ![c].wbuf = <<>>, ![c].pos = 0]
           ELSE /\ n = 1
                /\ conns' = [conns EXCEPT ![c].spc = "done", ![c].sEnd = "closed", ![c].toS = <<>>]
                /\ store' = store
        /\ UNCHANGED pushDone
        /\ UNCHANGED <<fileVars, trackerVars, senderVars, receiverVars>>

\* the peer process ends while a connection waits for its handler to read
\* the request: the client finds the connection closed and no reply
PeerDrop(c) ==
    LET k == conns[c]
    IN  /\ k.kind # "free"
        /\ k.spc = "recv_req"
        /\ conns' = [conns EXCEPT ![c].spc = "done", ![c].sEnd = "closed", ![c].toS = <<>>]
        /\ UNCHANGED <<store, pushDone>>
        /\ UNCHANGED <<fileVars, trackerVars, senderVars, receiverVars>>

\* one turn of the receive loop: data is written through the file's buffer; at
\* the end of the stream, or on ConnectionResetError, the loop is left, the
\* file is closed (the buffer written out) and the connection closed
PushRecvData(c) ==
    LET k == conns[c]
    IN  /\ k.spc = "push_data"
        /\ CanRecvS(k)
        /\ IF k.toS # <<>>
           THEN LET w == BufWrite(k.wbuf, Head(k.toS))
                IN  /\ store' = [store EXCEPT ![k.peer][k.fname] = WriteAt(@, k.pos, w.out)]
                    /\ conns' = [conns EXCEPT ![c].toS = Tail(k.toS), ![c].wbuf = w.wbuf,
                                              ![c].pos = k.pos + Len(w.out)]
                    /\ UNCHANGED pushDone
           ELSE /\ store' = [store EXCEPT ![k.peer][k.fname] = WriteAt(@, k.pos, k.wbuf)]
                /\ conns' = [conns EXCEPT ![c].wbuf = <<>>, ![c].pos = k.pos + Len(k.wbuf),
                                          ![c].spc = "done", ![c].sEnd = "closed", ![c].toS = <<>>]
                /\ pushDone' = IF k.result = "sent"
                               THEN pushDone \cup {<<k.peer, k.name, k.data>>}
                               ELSE pushDone
        /\ UNCHANGED <<fileVars, trackerVars, senderVars, receiverVars>>

\* what handle_request_specific_chunk sends for chunk_name: the bytes of the
\* file, or NOT_FOUND when there is no such file or it is empty
ServeChunkAlways(dir, chunk_name) ==
    IF chunk_name \in DOMAIN dir THEN dir[chunk_name] ELSE <<>>

ServeChunk(dir, chunk_name) ==
    IF chunk_name \notin DOMAIN dir \/ Len(dir[chunk_name]) = 0
    THEN NOT_FOUND
    ELSE dir[chunk_name]

\* a plausible slip: the chunk is moved to the requester, the file is
\* removed once it is sent
PullServeMoves(c) ==
    LET k == conns[c]
        chunk_name == IF k.toS # <<>> THEN Head(k.toS) ELSE <<>>
    IN  /\ k.spc = "pull_name"
        /\ CanRecvS(k)
        /\ conns' = [conns EXCEPT
              ![c].toC = Append(k.toC, IF k.toS # <<>>
                                       THEN ServeChunk(store[k.peer], chunk_name)
                                       ELSE NOT_FOUND),
              ![c].spc = "done", ![c].sEnd = "closed", ![c].toS = <<>>]
        /\ store' = [store EXCEPT ![k.peer] = Remove(@, chunk_name)]
        /\ UNCHANGED pushDone
        /\ UNCHANGED <<fileVars, trackerVars, senderVars, receiverVars>>

\* handle_request_specific_chunk after the ack: recv of the name, the reply,
\* and the close.  Without a name the path is the directory, open raises and
\* the except branch sends NOT_FOUND.
PullServe(c) ==
    LET k == conns[c]
    IN  /\ k.spc = "pull_name"
        /\ CanRecvS(k)
        /\ conns' = [conns EXCEPT
              ![c].toC = Append(k.toC, IF k.toS # <<>>
                                       THEN ServeChunk(store[k.peer], Head(k.toS))
                                       ELSE NOT_FOUND),
              ![c].spc = "done", ![c].sEnd = "closed", ![c].toS = <<>>]
        /\ UNCHANGED <<store, pushDone>>
        /\ UNCHANGED <<fileVars, trackerVars, senderVars, receiverVars>>

\* a plausible slip: whatever comes back is taken for the ack
AckAcceptedAny(ack) == TRUE

\* if ack != b'READY_ACK': continue
AckAccepted(ack) == ack = READY_ACK

\* alice.send_chunks_to_peer, one chunk: recv of the ack; anything but
\* READY_ACK skips the chunk, else the name is sent
PushClientAck(c) ==
    LET k == conns[c]
        ack == IF k.toC # <<>> THEN Head(k.toC) ELSE <<>>
    IN  /\ k.kind = "push" /\ k.cpc = "wait"
        /\ CanRecvC(k)
        /\ IF ~AckAccepted(ack)
           THEN conns' = [conns EXCEPT ![c].cpc = "done", ![c].cEnd = "fin",
                                       ![c].result = "skipped"]
           ELSE conns' = [conns EXCEPT ![c].toC = IF k.toC # <<>> THEN Tail(k.toC) ELSE <<>>,
                                       ![c].cpc = "send",
                                       ![c].toS = Append(k.toS, k.name)]
        /\ UNCHANGED <<store, pushDone>>
        /\ UNCHANGED <<fileVars, trackerVars, senderVars, receiverVars>>

\* s.sendall(data): the next piece of the payload reaches the peer
PushClientSend(c) ==
    LET k == conns[c]
    IN  /\ k.kind = "push" /\ k.cpc = "send"
        /\ k.sent < Len(k.data)
        /\ conns' = [conns EXCEPT ![c].toS = Append(k.toS, <<k.data[k.sent + 1]>>),
                                  ![c].sent = k.sent + 1]
        /\ UNCHANGED <<store, pushDone>>
        /\ UNCHANGED <<fileVars, trackerVars, senderVars, receiverVars>>

\* s.shutdown(socket.SHUT_WR) and success_count += 1
PushClientFinish(c) ==
    LET k == conns[c]
    IN  /\ k.kind = "push" /\ k.cpc = "send"
        /\ k.sent = Len(k.data)
        /\ conns' = [conns EXCEPT ![c].cpc = "done", ![c].cEnd = "fin", ![c].result = "sent"]
        /\ UNCHANGED <<store, pushDone>>
        /\ UNCHANGED <<fileVars, trackerVars, senderVars, receiverVars>>

\* bob.request_chunks_from_peer: recv of the response; json.loads of an empty
\* response raises and [] is returned
ListClientRecv(c) ==
    LET k == conns[c]
    IN  /\ k.kind = "list" /\ k.cpc = "wait"
        /\ CanRecvC(k)
        /\ conns' = [conns EXCEPT
              ![c].toC = IF k.toC # <<>> THEN Tail(k.toC) ELSE <<>>,
              ![c].listing = IF k.toC # <<>> THEN Head(k.toC) ELSE <<>>,
              ![c].cpc = "done", ![c].cEnd = "fin", ![c].result = "listed"]
        /\ UNCHANGED <<store, pushDone>>
        /\ UNCHANGED <<fileVars, trackerVars, senderVars, receiverVars>>

\* bob.download_chunk: recv of the ack; anything but REQUEST_ACK returns False,
\* else the name is sent and the local file opened for writing
PullClientAck(c) ==
    LET k == conns[c]
        ack == IF k.toC # <<>> THEN Head(k.toC) ELSE <<>>
    IN  /\ k.kind = "pull" /\ k.cpc = "wait"
        /\ CanRecvC(k)
        /\ IF ack # REQUEST_ACK
           THEN /\ conns' = [conns EXCEPT ![c].cpc = "done", ![c].cEnd = "fin",
                                          ![c].result = "False"]
                /\ downloads' = downloads
           ELSE /\ conns' = [conns EXCEPT ![c].toC = Tail(k.toC), ![c].cpc = "first",
                                          ![c].toS = Append(k.toS, k.name)]
                /\ downloads' = Put(downloads, k.name, <<>>)
        /\ UNCHANGED <<store, pushDone>>
        /\ UNCHANGED <<srcExists, srcFile, chunkSize, splitFrom, chunksDir, splitRet, alicePc,
                       reconRet, bobPc>>
        /\ UNCHANGED <<trackerVars, senderVars, receiverVars>>

\* first_data = s.recv(1024): NOT_FOUND removes the local file and returns
\* False, anything else is written
PullClientFirst(c) ==
    LET k == conns[c]
        first_data == IF k.toC # <<>> THEN Head(k.toC) ELSE <<>>
    IN  /\ k.kind = "pull" /\ k.cpc = "first"
        /\ CanRecvC(k)
        /\ IF first_data = NOT_FOUND
           THEN /\ downloads' = Remove(downloads, k.name)
                /\ conns' = [conns EXCEPT ![c].toC = Tail(k.toC), ![c].cpc = "done",
                                          ![c].cEnd = "fin", ![c].result = "False"]
           ELSE /\ downloads' = [downloads EXCEPT ![k.name] = @ \o first_data]
                /\ conns' = [conns EXCEPT
                      ![c].toC = IF k.toC # <<>> THEN Tail(k.toC) ELSE <<>>,
                      ![c].cpc = "rest"]
        /\ UNCHANGED <<store, pushDone>>
        /\ UNCHANGED <<srcExists, srcFile, chunkSize, splitFrom, chunksDir, splitRet, alicePc,
                       reconRet, bobPc>>
        /\ UNCHANGED <<trackerVars, senderVars, receiverVars>>

\* the rest of the data, to the end of the stream; an empty file is removed
\* and False returned, else True
PullClientRest(c) ==
    LET k == conns[c]
    IN  /\ k.kind = "pull" /\ k.cpc = "rest"
        /\ CanRecvC(k)
        /\ IF k.toC # <<>>
           THEN /\ downloads' = [downloads EXCEPT ![k.name] = @ \o Head(k.toC)]
                /\ conns' = [conns EXCEPT ![c].toC = Tail(k.toC)]
           ELSE IF Len(downloads[k.name]) = 0
           THEN /\ downloads' = Remove(downloads, k.name)
                /\ conns' = [conns EXCEPT ![c].cpc = "done", ![c].cEnd = "fin",
                                          ![c].result = "False"]
           ELSE /\ downloads' = downloads
                /\ conns' = [conns EXCEPT ![c].cpc = "done", ![c].cEnd = "fin",
                                          ![c].result = "True"]
        /\ UNCHANGED <<store, pushDone>>
        /\ UNCHANGED <<srcExists, srcFile, chunkSize, splitFrom, chunksDir, splitRet, alicePc,
                       reconRet, bobPc>>
        /\ UNCHANGED <<trackerVars, senderVars, receiverVars>>

-----------------------------------------------------------------------------
(* alice.py: the main program and send_chunks_to_peer.  One push, from      *)
(* connect to the end of the with block, is one step; how it went is its    *)
(* outcome:                                                                 *)
(*   "sent"     every call succeeded, success_count is incremented          *)
(*   "refused"  s.connect raised                                            *)
(*   "no_ack"   the reply was not READY_ACK, the loop continues             *)
(*   "error"    sendall, recv, open or shutdown raised, the except prints   *)
(* Addresses are taken to have the form ip:port, on which peer.split(":")   *)
(* yields the two parts connect is given.                                   *)

PushOutcomes == {"sent", "refused", "no_ack", "error"}

\* a plausible slip: every listed peer is pushed to
SelectPeersAll(ps) == ps

\* peer_count = min(2, len(peers)); peers[:peer_count]
SelectPeers(ps) == SubSeq(ps, 1, Min(2, Len(ps)))

\* a plausible slip: file_metadata.json is removed from the list and not
\* appended again
SendOrderChunksOnly(dir) == Sorted((DOMAIN dir) \ {METADATA_NAME})

\* sorted(os.listdir(chunks_dir)), file_metadata.json moved to the end
SendOrder(dir) ==
    IF METADATA_NAME \in DOMAIN dir
    THEN Append(Sorted((DOMAIN dir) \ {METADATA_NAME}), METADATA_NAME)
    ELSE Sorted(DOMAIN dir)

\* if not os.path.exists(file_path): exit(1)
AliceNoFile ==
    /\ alicePc = "start"
    /\ ~srcExists
    /\ alicePc' = "exit"
    /\ UNCHANGED <<srcExists, srcFile, chunkSize, splitFrom, chunksDir, splitRet,
                   downloads, reconRet, bobPc>>
    /\ UNCHANGED <<trackerVars, peerVars, senderVars, receiverVars>>

\* chunks = split_file(file_path)
AliceSplit ==
    /\ srcExists
    /\ SplitFile(DefaultChunkSize)

\* if not chunks: exit(1); peers = get_peers(); if not peers: exit(1).
\* get_peers returns the list the tracker holds, or [] when anything raised.
AliceGetPeers(ok) ==
    /\ alicePc = "split"
    /\ IF splitRet = <<>>
       THEN /\ alicePc' = "exit"
            /\ UNCHANGED <<alicePeers, aliceTodo>>
       ELSE LET response == IF ok /\ trackerUp THEN peers ELSE <<>>
            IN  /\ alicePeers' = response
                /\ IF response = <<>>
                   THEN /\ alicePc' = "exit"
                        /\ UNCHANGED aliceTodo
                   ELSE /\ alicePc' = "peers"
                        /\ aliceTodo' = SelectPeers(response)
    /\ UNCHANGED <<aliceCur, aliceQueue, aliceSent, aliceLog>>
    /\ UNCHANGED <<srcExists, srcFile, chunkSize, splitFrom, chunksDir, splitRet,
                   downloads, reconRet, bobPc>>
    /\ UNCHANGED <<trackerVars, peerVars, receiverVars>>

\* for peer in peers[:peer_count]: send_chunks_to_peer(ip, port), up to the
\* for loop over the chunk files; after the last peer the program ends
AliceNextPeer ==
    /\ alicePc = "peers"
    /\ IF aliceTodo = <<>>
       THEN /\ alicePc' = "done"
            /\ UNCHANGED <<aliceTodo, aliceCur, aliceQueue, aliceSent>>
       ELSE LET chunks == SendOrder(chunksDir)
            IN  /\ aliceTodo' = Tail(aliceTodo)
                /\ aliceCur' = Head(aliceTodo)
                /\ aliceSent' = 0
                /\ IF chunks = <<>>
                   THEN /\ alicePc' = "peers"
                        /\ UNCHANGED aliceQueue
                   ELSE /\ alicePc' = "chunks"
                        /\ aliceQueue' = chunks
    /\ UNCHANGED <<alicePeers, aliceLog>>
    /\ UNCHANGED <<srcExists, srcFile, chunkSize, splitFrom, chunksDir, splitRet,
                   downloads, reconRet, bobPc>>
    /\ UNCHANGED <<trackerVars, peerVars, receiverVars>>

\* a plausible slip: a push that failed ends the loop over the chunk files
RemainingAfterBreak(queue, outcome) == IF outcome = "sent" THEN Tail(queue) ELSE <<>>

\* a plausible slip: a chunk file whose push failed stays first in the queue
\* and is pushed again
RemainingAfterRetry(queue, outcome) == IF outcome = "sent" THEN Tail(queue) ELSE queue

\* the chunk files left once a push has ended: after continue, and after the
\* except clause, the for loop goes on with the next chunk file
RemainingAfter(queue, outcome) == Tail(queue)

\* one round of for chunk_file in chunks: an empty file is skipped, any
\* other is pushed on a connection of its own
AliceSendChunk(outcome) ==
    /\ alicePc = "chunks"
    /\ aliceQueue # <<>>
    /\ LET chunk_file == Head(aliceQueue)
       IN  IF chunk_file \notin DOMAIN chunksDir \/ chunksDir[chunk_file] = <<>>
           THEN UNCHANGED <<aliceSent, aliceLog>>
           ELSE /\ aliceLog' = Append(aliceLog, [peer |-> aliceCur, chunk |-> chunk_file,
                                                 outcome |-> outcome])
                /\ aliceSent' = IF outcome = "sent" THEN aliceSent + 1 ELSE aliceSent
    /\ aliceQueue' = RemainingAfter(aliceQueue, outcome)
    /\ UNCHANGED <<alicePeers, aliceTodo, aliceCur>>
    /\ UNCHANGED <<fileVars, trackerVars, peerVars, receiverVars>>

\* the tracker, or the peer of the push at hand, has accepted the connection
\* and sends nothing and does not close: s.recv of get_peers, or of the ack
\* in send_chunks_to_peer, has no timeout and does not return
AliceHang ==
    /\ \/ /\ alicePc = "split"
          /\ splitRet # <<>>
          /\ UNCHANGED aliceLog
       \/ /\ alicePc = "chunks"
          /\ aliceQueue # <<>>
          /\ Head(aliceQueue) \in DOMAIN chunksDir
          /\ chunksDir[Head(aliceQueue)] # <<>>
          /\ aliceLog' = Append(aliceLog, [peer |-> aliceCur, chunk |-> Head(aliceQueue),
                                            outcome |-> "hang"])
    /\ alicePc' = "blocked"
    /\ UNCHANGED <<alicePeers, aliceTodo, aliceCur, aliceQueue, aliceSent>>
    /\ UNCHANGED <<srcExists, srcFile, chunkSize, splitFrom, chunksDir, splitRet,
                   downloads, reconRet, bobPc>>
    /\ UNCHANGED <<trackerVars, peerVars, receiverVars>>

\* the for loop is over: return success_count > 0, back in the main program
AliceEndPeer ==
    /\ alicePc = "chunks"
    /\ aliceQueue = <<>>
    /\ alicePc' = "peers"
    /\ UNCHANGED <<srcExists, srcFile, chunkSize, splitFrom, chunksDir, splitRet,
                   downloads, reconRet, bobPc>>
    /\ UNCHANGED <<trackerVars, peerVars, senderVars, receiverVars>>

-----------------------------------------------------------------------------
(* peer.py: handle_incoming_chunk as a whole, for a push that alice has     *)
(* carried to its end.  The handler thread runs beside alice; when it has   *)
(* read the stream to its end the file holds the bytes alice sent.          *)

\* the pushes alice has completed whose file the peer has not yet written
PendingPushes ==
    {i \in DOMAIN aliceLog :
        /\ aliceLog[i].outcome = "sent"
        /\ aliceLog[i].chunk \notin DOMAIN store[aliceLog[i].peer]}

PeerStorePush(i) ==
    /\ i \in PendingPushes
    /\ LET e == aliceLog[i]
       IN  /\ store' = [store EXCEPT ![e.peer] = Put(@, e.chunk, chunksDir[e.chunk])]
           /\ pushDone' = pushDone \cup {<<e.peer, e.chunk, chunksDir[e.chunk]>>}
    /\ UNCHANGED conns
    /\ UNCHANGED <<fileVars, trackerVars, senderVars, receiverVars>>

-----------------------------------------------------------------------------
(* bob.py: main, request_chunks_from_peer and download_chunk.  One call of  *)
(* request_chunks_from_peer is one step, and so is one call of              *)
(* download_chunk; how the connection went is its outcome:                  *)
(*   "served"   the peer answered the request in full                       *)
(*   "refused"  s.connect raised                                            *)
(*   "no_ack"   the first reply was not REQUEST_ACK                         *)
(*   "reset"    the recv of first_data raised, the local file is open       *)
(*   "cut"      the connection ended after the first n bytes of the chunk   *)
(* A peer that is not running refuses the connection.                       *)

PullOutcomes == {"served", "refused", "no_ack", "reset", "cut"}

\* download_chunk after the connection: what becomes of DOWNLOAD_DIR and what
\* is returned, reply being what handle_request_specific_chunk sends
DownloadChunk(dir, chunk_name, reply, outcome, n) ==
    LET got == IF outcome = "cut" THEN SubSeq(reply, 1, n) ELSE reply
    IN  IF outcome \in {"refused", "no_ack"}
        THEN [dir |-> dir, ok |-> FALSE]
        ELSE IF outcome = "reset"
        THEN [dir |-> Put(dir, chunk_name, <<>>), ok |-> FALSE]
        ELSE IF got = NOT_FOUND \/ got = <<>>
        THEN [dir |-> Remove(dir, chunk_name), ok |-> FALSE]
        ELSE [dir |-> Put(dir, chunk_name, got), ok |-> TRUE]

\* a plausible slip: every listed chunk is downloaded, downloaded before or not
NeedsDownloadAlways(chunk, downloaded_chunks) == TRUE

\* if chunk not in downloaded_chunks
NeedsDownload(chunk, downloaded_chunks) == chunk \notin downloaded_chunks

\* a peer process ends
PeerShutdown(p) ==
    /\ peerUp[p]
    /\ peerUp' = [peerUp EXCEPT ![p] = FALSE]
    /\ UNCHANGED <<bobPeers, bobTodo, bobCur, bobQueue, bobDownloaded, bobListed, bobLog>>
    /\ UNCHANGED <<fileVars, trackerVars, peerVars, senderVars>>

\* main up to the loop over the peers: DOWNLOAD_DIR is emptied, get_peer_list
\* returns the list the tracker holds, or [] when anything raised
BobStart(ok) ==
    /\ bobPc = "start"
    /\ downloads' = EmptyDir
    /\ LET all_peers == IF ok /\ trackerUp THEN peers ELSE <<>>
       IN  /\ bobPeers' = all_peers
           /\ bobTodo' = all_peers
           /\ bobPc' = IF all_peers = <<>> THEN "exit" ELSE "peers"
    /\ bobDownloaded' = {}
    /\ UNCHANGED <<peerUp, bobCur, bobQueue, bobListed, bobLog>>
    /\ UNCHANGED <<srcExists, srcFile, chunkSize, splitFrom, chunksDir, splitRet, alicePc,
                   reconRet>>
    /\ UNCHANGED <<trackerVars, peerVars, senderVars>>

\* a plausible slip: reconstruct_file is called whatever was downloaded
AfterPeersAlways(downloaded_chunks) == "fetched"

\* if not downloaded_chunks: return, before reconstruct_file is called
AfterPeers(downloaded_chunks) ==
    IF downloaded_chunks = {} THEN "exit" ELSE "fetched"

\* for peer in all_peers: request_chunks_from_peer, which returns the list
\* the peer sent or [] when anything raised; after the last peer, the test
\* of downloaded_chunks that precedes reconstruct_file
BobNextPeer(ok) ==
    /\ bobPc = "peers"
    /\ IF bobTodo = <<>>
       THEN /\ bobPc' = AfterPeers(bobDownloaded)
            /\ UNCHANGED <<bobTodo, bobCur, bobQueue, bobListed>>
       ELSE LET peer == Head(bobTodo)
            IN  /\ bobTodo' = Tail(bobTodo)
                /\ bobCur' = peer
                /\ bobListed' = Append(bobListed, peer)
                /\ \E listing \in AvailableChunks(store[peer]) :
                      LET available_chunks == IF ok /\ peerUp[peer] THEN listing ELSE <<>>
                      IN  /\ bobQueue' = available_chunks
                          /\ bobPc' = IF available_chunks = <<>> THEN "peers" ELSE "chunks"
    /\ UNCHANGED <<peerUp, bobPeers, bobDownloaded, bobLog>>
    /\ UNCHANGED <<srcExists, srcFile, chunkSize, splitFrom, chunksDir, splitRet, alicePc,
                   downloads, reconRet>>
    /\ UNCHANGED <<trackerVars, peerVars, senderVars>>

\* one round of for chunk in available_chunks
BobChunk(outcome, n) ==
    /\ bobPc = "chunks"
    /\ bobQueue # <<>>
    /\ LET chunk == Head(bobQueue)
           reply == ServeChunk(store[bobCur], chunk)
           how == IF peerUp[bobCur] THEN outcome ELSE "refused"
           r == DownloadChunk(downloads, chunk, reply, how, n)
       IN  IF NeedsDownload(chunk, bobDownloaded)
           THEN /\ how = "cut" => reply # NOT_FOUND /\ n < Len(reply)
                /\ downloads' = r.dir
                /\ bobDownloaded' = IF r.ok THEN bobDownloaded \cup {chunk} ELSE bobDownloaded
                /\ bobLog' = Append(bobLog, [peer |-> bobCur, chunk |-> chunk,
                                             outcome |-> how, ok |-> r.ok])
           ELSE UNCHANGED <<downloads, bobDownloaded, bobLog>>
    /\ bobQueue' = Tail(bobQueue)
    /\ UNCHANGED <<peerUp, bobPeers, bobTodo, bobCur, bobListed>>
    /\ UNCHANGED <<srcExists, srcFile, chunkSize, splitFrom, chunksDir, splitRet, alicePc,
                   reconRet, bobPc>>
    /\ UNCHANGED <<trackerVars, peerVars, senderVars>>

\* the tracker, or the peer at hand, has accepted the connection and sends
\* nothing and does not close: s.recv of get_peer_list, of
\* request_chunks_from_peer or of download_chunk has no timeout and does not
\* return
BobHang ==
    /\ \/ bobPc = "start"
       \/ bobPc = "peers" /\ bobTodo # <<>>
       \/ bobPc = "chunks" /\ bobQueue # <<>> /\ NeedsDownload(Head(bobQueue), bobDownloaded)
    /\ bobPc' = "blocked"
    /\ UNCHANGED <<srcExists, srcFile, chunkSize, splitFrom, chunksDir, splitRet, alicePc,
                   downloads, reconRet>>
    /\ UNCHANGED <<trackerVars, peerVars, senderVars, receiverVars>>

\* the inner loop is over, on to the next peer
BobEndPeer ==
    /\ bobPc = "chunks"
    /\ bobQueue = <<>>
    /\ bobPc' = "peers"
    /\ UNCHANGED <<srcExists, srcFile, chunkSize, splitFrom, chunksDir, splitRet, alicePc,
                   downloads, reconRet>>
    /\ UNCHANGED <<trackerVars, peerVars, senderVars, receiverVars>>

-----------------------------------------------------------------------------
(* The initial states of the programs *)

TrackerIdle ==
    /\ peers = <<>>
    /\ trackerUp = TRUE
    /\ backlog = <<>>
    /\ tconn = NoConn
    /\ replies = EmptyDir
    /\ regLog = <<>>
    /\ nextConn = 0

FileIdle ==
    /\ srcExists = FALSE
    /\ srcFile = <<>>
    /\ chunkSize = 1
    /\ chunksDir = EmptyDir
    /\ splitFrom = EmptyDir
    /\ splitRet = <<>>
    /\ alicePc = "start"
    /\ downloads = EmptyDir
    /\ reconRet = "none"
    /\ bobPc = "start"

PeerIdle ==
    /\ store = [p \in PeerAddrs |-> EmptyDir]
    /\ conns = [c \in ConnIds |-> FreeConn]
    /\ pushDone = {}

SenderIdle ==
    /\ alicePeers = <<>>
    /\ aliceTodo = <<>>
    /\ aliceCur = ""
    /\ aliceQueue = <<>>
    /\ aliceSent = 0
    /\ aliceLog = <<>>

ReceiverIdle ==
    /\ peerUp = [p \in PeerAddrs |-> TRUE]
    /\ bobPeers = <<>>
    /\ bobTodo = <<>>
    /\ bobCur = ""
    /\ bobQueue = <<>>
    /\ bobDownloaded = {}
    /\ bobListed = <<>>
    /\ bobLog = <<>>

-----------------------------------------------------------------------------
(* SpecTracker: the tracker and any number of clients connecting at any time *)

TrackerInit == TrackerIdle /\ FileIdle /\ PeerIdle /\ SenderIdle /\ ReceiverIdle

TrackerNext ==
    \/ \E req \in TrackerRequests : TrackerConnect(req)
    \/ TrackerAccept
    \/ TrackerHandle

SpecTracker == TrackerInit /\ [][TrackerNext]_vars

-----------------------------------------------------------------------------
(* SpecFile: split_file on any one file, then reconstruct_file on its chunks *)

FileInit ==
    /\ srcExists \in BOOLEAN
    /\ srcFile \in (IF srcExists THEN FilesUpTo(MaxFileLen) ELSE {<<>>})
    /\ chunkSize \in 1..MaxChunkSize
    /\ chunksDir = EmptyDir
    /\ splitFrom = EmptyDir
    /\ splitRet = <<>>
    /\ alicePc = "start"
    /\ downloads = EmptyDir
    /\ reconRet = "none"
    /\ bobPc = "start"
    /\ TrackerIdle
    /\ PeerIdle
    /\ SenderIdle
    /\ ReceiverIdle

FileNext ==
    \/ SplitFile(chunkSize)
    \/ FetchAll
    \/ ReconstructFile

SpecFile == FileInit /\ [][FileNext]_vars

\* split_file is called again, with the path of another file or of a file
\* that is not there; "chunks" is as the call before left it
NextSplitCall(exists, f) ==
    /\ alicePc = "split"
    /\ alicePc' = "start"
    /\ srcExists' = exists
    /\ srcFile' = f
    /\ splitRet' = <<>>
    /\ UNCHANGED <<chunkSize, splitFrom, chunksDir, downloads, reconRet, bobPc>>
    /\ UNCHANGED <<trackerVars, peerVars, senderVars, receiverVars>>

ResplitInit ==
    /\ FileInit
    /\ Len(srcFile) <= MaxResplitLen

ResplitNext ==
    \/ SplitFile(chunkSize)
    \/ \E f \in FilesUpTo(MaxResplitLen) : NextSplitCall(TRUE, f)
    \/ NextSplitCall(FALSE, <<>>)

SpecResplit == ResplitInit /\ [][ResplitNext]_vars

-----------------------------------------------------------------------------
(* SpecPartial: split_file on any one file, then reconstruct_file on any     *)
(* part of its chunks and metadata                                          *)

PartialInit ==
    /\ srcExists = TRUE
    /\ srcFile \in FilesUpTo(MaxPartialLen)
    /\ chunkSize \in 1..MaxChunkSize
    /\ chunksDir = EmptyDir
    /\ splitFrom = EmptyDir
    /\ splitRet = <<>>
    /\ alicePc = "start"
    /\ downloads = EmptyDir
    /\ reconRet = "none"
    /\ bobPc = "start"
    /\ TrackerIdle
    /\ PeerIdle
    /\ SenderIdle
    /\ ReceiverIdle

PartialNext ==
    \/ SplitFile(chunkSize)
    \/ \E S \in SUBSET (DOMAIN chunksDir) : FetchSubset(S)
    \/ ReconstructFile

SpecPartial == PartialInit /\ [][PartialNext]_vars

-----------------------------------------------------------------------------
(* SpecPeer: one peer, senders pushing to it and a receiver listing and      *)
(* pulling, all at the same time                                            *)

PeerInit == PeerIdle /\ FileIdle /\ TrackerIdle /\ SenderIdle /\ ReceiverIdle

PeerNext ==
    \/ \E c \in ConnIds, name \in PeerNames, data \in Payloads :
          ClientOpen(c, ThePeer, "push", name, data)
    \/ \E c \in ConnIds, name \in PeerNames : ClientOpen(c, ThePeer, "pull", name, <<>>)
    \/ \E c \in ConnIds : ClientOpen(c, ThePeer, "list", <<>>, <<>>)
    \/ \E c \in ConnIds : ClientOpen(c, ThePeer, "other", <<>>, <<>>)
    \/ \E c \in ConnIds, how \in {"fin", "rst"} : ClientAbort(c, how)
    \/ \E c \in ConnIds : OtherClientClose(c)
    \/ \E c \in ConnIds : HandleClient(c)
    \/ \E c \in ConnIds, n \in 1..MaxRecvPieces : PushRecvName(c, n)
    \/ \E c \in ConnIds : PeerDrop(c)
    \/ \E c \in ConnIds : PushRecvData(c)
    \/ \E c \in ConnIds : PullServe(c)
    \/ \E c \in ConnIds : PushClientAck(c)
    \/ \E c \in ConnIds : PushClientSend(c)
    \/ \E c \in ConnIds : PushClientFinish(c)
    \/ \E c \in ConnIds : ListClientRecv(c)
    \/ \E c \in ConnIds : PullClientAck(c)
    \/ \E c \in ConnIds : PullClientFirst(c)
    \/ \E c \in ConnIds : PullClientRest(c)

SpecPeer == PeerInit /\ [][PeerNext]_vars

\* the tracker and a peer are separate processes that share no state; a
\* behaviour follows the requests made to one of them
ServersNext ==
    \/ TrackerNext /\ conns = [c \in ConnIds |-> FreeConn]
    \/ PeerNext /\ nextConn = 0

SpecServers == PeerInit /\ [][ServersNext]_vars

-----------------------------------------------------------------------------
(* SpecSender: one run of alice against a registry holding any list of      *)
(* peers, every push ending in any of its outcomes                          *)

\* the source files of a run: one of every length
SendFiles == {f \in FilesUpTo(MaxSendLen) : \A i \in DOMAIN f : f[i] = 1}

\* the lists the registry can hold: every list of addresses without repetition
Registries ==
    {ps \in UNION {[1..n -> PeerAddrs] : n \in 0..Cardinality(PeerAddrs)} :
        \A i, j \in DOMAIN ps : ps[i] = ps[j] => i = j}

SenderInit ==
    /\ srcExists \in BOOLEAN
    /\ srcFile \in (IF srcExists THEN SendFiles ELSE {<<>>})
    /\ chunkSize = DefaultChunkSize
    /\ chunksDir = EmptyDir
    /\ splitFrom = EmptyDir
    /\ splitRet = <<>>
    /\ alicePc = "start"
    /\ downloads = EmptyDir
    /\ reconRet = "none"
    /\ bobPc = "start"
    /\ peers \in Registries
    /\ regLog = peers
    /\ trackerUp = TRUE
    /\ backlog = <<>>
    /\ tconn = NoConn
    /\ replies = EmptyDir
    /\ nextConn = 0
    /\ PeerIdle
    /\ SenderIdle
    /\ ReceiverIdle

SenderNext ==
    \/ AliceNoFile
    \/ AliceSplit
    \/ \E ok \in BOOLEAN : AliceGetPeers(ok)
    \/ AliceNextPeer
    \/ \E outcome \in PushOutcomes : AliceSendChunk(outcome)
    \/ AliceEndPeer
    \/ AliceHang

SpecSender == SenderInit /\ [][SenderNext]_vars

\* the sender under the scheduling of a process that is alone on its
\* machine: a step that can be taken is taken in the end
SpecSenderLive == SpecSender /\ WF_vars(SenderNext)

-----------------------------------------------------------------------------
(* SpecEndToEnd: three peers registered and responsive; alice splits a file  *)
(* and pushes it; when alice has finished and the peers have stored what    *)
(* she sent, bob fetches and reconstructs.  Every connection is served.     *)

EndToEndInit ==
    /\ srcExists = TRUE
    /\ srcFile \in FilesUpTo(MaxE2ELen) \ {<<>>}
    /\ chunkSize = DefaultChunkSize
    /\ chunksDir = EmptyDir
    /\ splitFrom = EmptyDir
    /\ splitRet = <<>>
    /\ alicePc = "start"
    /\ downloads = EmptyDir
    /\ reconRet = "none"
    /\ bobPc = "start"
    /\ peers \in {ps \in Registries : Len(ps) = Cardinality(PeerAddrs)}
    /\ regLog = peers
    /\ trackerUp = TRUE
    /\ backlog = <<>>
    /\ tconn = NoConn
    /\ replies = EmptyDir
    /\ nextConn = 0
    /\ PeerIdle
    /\ SenderIdle
    /\ ReceiverIdle

EndToEndNext ==
    \/ AliceSplit
    \/ AliceGetPeers(TRUE)
    \/ AliceNextPeer
    \/ AliceSendChunk("sent")
    \/ AliceEndPeer
    \/ \E i \in DOMAIN aliceLog : PeerStorePush(i)
    \/ alicePc = "done" /\ PendingPushes = {} /\ BobStart(TRUE)
    \/ BobNextPeer(TRUE)
    \/ BobChunk("served", 0)
    \/ BobEndPeer
    \/ ReconstructFile

SpecEndToEnd == EndToEndInit /\ [][EndToEndNext]_vars

\* the programs are scheduled: a step that can be taken is taken in the end
SpecEndToEndLive == SpecEndToEnd /\ WF_vars(EndToEndNext)

-----------------------------------------------------------------------------
(* SpecBothRuns: a run of alice in which a push is made, refused or not     *)
(* acknowledged, and after it, when the peers have stored what she sent, a  *)
(* run of bob in which a connection is served, refused or cut               *)

BothRunsInit ==
    /\ srcExists = TRUE
    /\ srcFile \in {f \in SendFiles : Len(f) <= MaxBothLen}
    /\ chunkSize = DefaultChunkSize
    /\ chunksDir = EmptyDir
    /\ splitFrom = EmptyDir
    /\ splitRet = <<>>
    /\ alicePc = "start"
    /\ downloads = EmptyDir
    /\ reconRet = "none"
    /\ bobPc = "start"
    /\ peers \in {ps \in Registries : Len(ps) <= MaxRecvPeers}
    /\ regLog = peers
    /\ trackerUp = TRUE
    /\ backlog = <<>>
    /\ tconn = NoConn
    /\ replies = EmptyDir
    /\ nextConn = 0
    /\ PeerIdle
    /\ SenderIdle
    /\ ReceiverIdle

BothRunsNext ==
    \/ AliceSplit
    \/ AliceGetPeers(TRUE)
    \/ AliceNextPeer
    \/ \E outcome \in {"sent", "refused", "no_ack"} : AliceSendChunk(outcome)
    \/ AliceEndPeer
    \/ \E i \in DOMAIN aliceLog : PeerStorePush(i)
    \/ alicePc = "done" /\ PendingPushes = {} /\ BobStart(TRUE)
    \/ BobNextPeer(TRUE)
    \/ \E outcome \in {"served", "refused", "cut"}, n \in 0..MaxCut : BobChunk(outcome, n)
    \/ BobEndPeer
    \/ ReconstructFile

SpecBothRuns == BothRunsInit /\ [][BothRunsNext]_vars

-----------------------------------------------------------------------------
(* SpecReceiver: one run of bob against a registry holding any list of up   *)
(* to MaxRecvPeers peers, each peer holding what pushes, whole or cut       *)
(* short, may have left, the registered peers ending at any moment and      *)
(* every connection going any way                                           *)

\* the file the peers hold chunks of, split in one chunk
RecvSource == <<1, 0>>

RecvFull ==
    Put(SplitLoop(RecvSource, 0, Len(RecvSource), 0, EmptyDir, <<>>).dir, METADATA_NAME,
        MetadataDump([original_filename |-> SRC_BASENAME, extension |-> SRC_EXTENSION,
                      size |-> Len(RecvSource), chunk_count |-> 1]))

\* what a peer may hold: nothing, every file, the chunk without the metadata,
\* the empty file an aborted push leaves
RecvDirs ==
    {EmptyDir, RecvFull, Remove(RecvFull, METADATA_NAME), Put(EmptyDir, ChunkName(0), <<>>)}

ReceiverInit ==
    /\ FileIdle
    /\ peers \in {ps \in Registries : Len(ps) <= MaxRecvPeers}
    /\ regLog = peers
    /\ trackerUp = TRUE
    /\ backlog = <<>>
    /\ tconn = NoConn
    /\ replies = EmptyDir
    /\ nextConn = 0
    /\ store \in [PeerAddrs -> RecvDirs]
    /\ \A p \in PeerAddrs : p \notin Range(peers) => store[p] = EmptyDir
    /\ conns = [c \in ConnIds |-> FreeConn]
    /\ pushDone = {}
    /\ SenderIdle
    /\ ReceiverIdle

ReceiverNext ==
    \/ \E p \in Range(peers) : PeerShutdown(p)
    \/ \E ok \in BOOLEAN : BobStart(ok)
    \/ \E ok \in BOOLEAN : BobNextPeer(ok)
    \/ \E outcome \in PullOutcomes, n \in 0..MaxCut : BobChunk(outcome, n)
    \/ BobEndPeer
    \/ BobHang
    \/ ReconstructFile

SpecReceiver == ReceiverInit /\ [][ReceiverNext]_vars

-----------------------------------------------------------------------------
(* Claims about split_file and reconstruct_file *)

\* the number of windows of size s a file of n bytes has
CeilDiv(n, s) == (n + s - 1) \div s

\* C1: Round-trip: for every non-empty source file and every chunk size,
\* reconstruct_file run over exactly the chunks and metadata split_file produced
\* leaves an output file whose bytes are those of the source file.
C1_RoundTrip ==
    (bobPc = "done" /\ srcExists /\ Len(srcFile) > 0)
        => /\ reconRet = "True"
           /\ SRC_BASENAME \in DOMAIN downloads
           /\ downloads[SRC_BASENAME] = srcFile

\* C2: Ordering correctness: when the download directory holds the chunks named
\* with indices 0..11, reconstruct_file concatenates their payloads in ascending
\* numeric order of the index.
C2_NumericOrder ==
    (bobPc = "done" /\ ChunkFilesIn(downloads) = {ChunkName(i) : i \in 0..11})
        => downloads[OutputName(downloads)]
             = Concat(downloads, [k \in 1..12 |-> ChunkName(k - 1)])

\* C5: Chunk count: split_file on a file of N bytes with chunk size S leaves
\* exactly ceil(N/S) chunk files chunk_0 .. chunk_{ceil(N/S)-1}, each of S bytes
\* but for a possibly shorter last one, none at all when N = 0, and the
\* chunk_count of the metadata is the number of chunk files.
C5_ChunkCount ==
    (alicePc = "split" /\ srcExists) =>
        LET N == Len(srcFile)
            n == CeilDiv(N, chunkSize)
            md == MetadataLoad(chunksDir[METADATA_NAME])
        IN  /\ ChunkFilesIn(chunksDir) = {ChunkName(i) : i \in 0..(n - 1)}
            /\ DOMAIN chunksDir = ChunkFilesIn(chunksDir) \cup {METADATA_NAME}
            /\ \A i \in 0..(n - 2) : Len(chunksDir[ChunkName(i)]) = chunkSize
            /\ n > 0 => /\ Len(chunksDir[ChunkName(n - 1)]) = N - (n - 1) * chunkSize
                        /\ Len(chunksDir[ChunkName(n - 1)]) \in 1..chunkSize
            /\ md.chunk_count = Cardinality(ChunkFilesIn(chunksDir))
            /\ md.chunk_count = n
            /\ Len(splitRet) = n + 1

\* a split whose last chunk is short, after at least one full chunk
C5_Witness ==
    /\ alicePc = "split" /\ srcExists
    /\ Len(srcFile) > chunkSize
    /\ Len(srcFile) % chunkSize # 0
    /\ MetadataLoad(chunksDir[METADATA_NAME]).chunk_count = CeilDiv(Len(srcFile), chunkSize)

-----------------------------------------------------------------------------
(* Claims about the tracker *)

NoDuplicates(s) == \A i, j \in DOMAIN s : s[i] = s[j] => i = j

\* the distinct elements of a list, each at the place of its first occurrence
RECURSIVE FirstSeen(_)
FirstSeen(s) ==
    IF s = <<>> THEN <<>>
    ELSE LET front == FirstSeen(SubSeq(s, 1, Len(s) - 1))
             last == s[Len(s)]
         IN  IF last \in Range(front) THEN front ELSE Append(front, last)

\* the tracker is about to handle a REGISTER_PEER for the address a
HandlingRegister(a) ==
    trackerUp /\ tconn # NoConn /\ tconn.req = <<"REGISTER_PEER", a>>

\* C6: Registry idempotence and uniqueness: after any sequence of REGISTER_PEER
\* and GET_PEERS requests the peer list holds no address twice, and handling a
\* REGISTER_PEER for an address already in the list leaves the list as it was,
\* in length and in order.
C6_RegistryIdempotent ==
    /\ [](NoDuplicates(peers))
    /\ [][\A a \in PeerAddrs :
            (HandlingRegister(a) /\ a \in Range(peers) /\ tconn' = NoConn)
                => peers' = peers]_vars

\* an address was registered a second time, another one being registered too
C6_Witness ==
    /\ Len(peers) >= 2
    /\ Len(regLog) > Len(peers)
    /\ DOMAIN replies # {}

\* C7: Registry listing order and persistence: every GET_PEERS response is the
\* list of all addresses registered up to then, in the order of their first
\* registration, and an address of an earlier response is in every later one.
C7_ListingOrder ==
    /\ \A id \in DOMAIN replies :
          replies[id].list = FirstSeen(SubSeq(regLog, 1, replies[id].at))
    /\ \A id1, id2 \in DOMAIN replies :
          id1 < id2 => Range(replies[id1].list) \subseteq Range(replies[id2].list)

\* two responses, the later one longer, given after a repeated registration
C7_Witness ==
    \E id1, id2 \in DOMAIN replies :
        /\ id1 < id2
        /\ Len(replies[id1].list) >= 1
        /\ Len(replies[id2].list) > Len(replies[id1].list)
        /\ replies[id2].at > Len(replies[id2].list)

\* C8: Registry concurrency safety: however the connections of many clients
\* interleave with the tracker's loop, every response is the whole list as it
\* stood at one moment, every registration the tracker received is in the list,
\* and the list holds no address twice.
C8_RegistrySerialized ==
    /\ \A id \in DOMAIN replies :
          \E k \in 0..Len(regLog) :
              /\ replies[id].list = FirstSeen(SubSeq(regLog, 1, k))
              /\ replies[id].list = SubSeq(peers, 1, Len(replies[id].list))
    /\ \A i \in DOMAIN regLog : regLog[i] \in Range(peers)
    /\ Cardinality(Range(peers)) = Len(peers)

\* a request is being handled while two more connections wait, after a
\* registration and a response
C8_Witness ==
    /\ tconn # NoConn
    /\ Len(backlog) >= 2
    /\ \E i \in DOMAIN backlog : Len(backlog[i].req) = 2
    /\ Len(peers) >= 1
    /\ DOMAIN replies # {}

-----------------------------------------------------------------------------
(* Claims about the peer *)

\* a push of the name to the peer has been read to the end of its stream
PushCompleted(p, name) == \E t \in pushDone : t[1] = p /\ t[2] = name

\* what the peer answered a pull with: the last thing it sent before closing
PullReply(k) == k.toC[Len(k.toC)]

\* C3: Atomic visibility: however a push interleaves with ListChunks and pull
\* connections on the same peer, a chunk name is in a listing, and bytes are
\* served for it, only after a push stream for that name has completed, and
\* the bytes served are the whole payload of a completed push.
C3_AtomicVisibility ==
    \A c \in ConnIds :
        LET k == conns[c]
        IN  /\ (k.kind = "list" /\ k.spc = "done" /\ k.toC # <<>>)
                 => \A i \in DOMAIN k.toC[1] : PushCompleted(k.peer, k.toC[1][i])
            /\ (k.kind = "pull" /\ k.spc = "done" /\ k.cpc = "first" /\ k.toC # <<>>
                  /\ PullReply(k) # NOT_FOUND)
                 => <<k.peer, k.name, PullReply(k)>> \in pushDone

\* C4: Aborted push leaves nothing behind: when a push connection ends before
\* the initiator signalled the end of its data, then once the handler has
\* finished the store holds no file under that chunk name (no other push of
\* the name having been made).
C4_AbortedPushLeavesNothing ==
    \A c \in ConnIds :
        LET k == conns[c]
        IN  (/\ k.kind = "push" /\ k.result = "aborted" /\ k.spc = "done"
             /\ \A b \in ConnIds \ {c} : conns[b].kind = "push" => conns[b].name # k.name)
                => k.name \notin DOMAIN store[k.peer]

\* no handler of the peer is inside handle_incoming_chunk
Quiescent(p) ==
    \A c \in ConnIds :
        (conns[c].kind = "push" /\ conns[c].peer = p) => conns[c].spc = "done"

\* C24: in a peer with no push in progress, a chunk name is in the answer to
\* REQUEST_CHUNKS if and only if REQUEST_CHUNK for that name is answered
\* with chunk bytes rather than NOT_FOUND, whatever pushes (completed, with
\* an empty payload, aborted) were made before.
C24_ListingServeConsistency ==
    Quiescent(ThePeer) =>
        \A listing \in AvailableChunks(store[ThePeer]) :
            \A name \in PeerNames :
                (\E i \in DOMAIN listing : listing[i] = name)
                    <=> ServeChunk(store[ThePeer], name) # NOT_FOUND

\* the handler of connection c answers a pull for a name the store does not hold
PullMissStep(c) ==
    /\ conns[c].spc = "pull_name"
    /\ conns[c].toS # <<>>
    /\ Head(conns[c].toS) \notin DOMAIN store[conns[c].peer]
    /\ conns'[c].spc = "done"

\* download_chunk on connection c reads NOT_FOUND as its first data
PullNotFoundStep(c) ==
    /\ conns[c].kind = "pull" /\ conns[c].cpc = "first"
    /\ conns[c].toC # <<>> /\ Head(conns[c].toC) = NOT_FOUND
    /\ conns'[c].cpc = "done" /\ conns'[c].result # "aborted"

\* C9: Pull-miss isolation: a REQUEST_CHUNK for a name the peer does not hold is
\* answered with NOT_FOUND and the connection closed, the peer's store and
\* every other connection staying as they were; the requester returns False
\* and keeps no file of that name.
C9_PullMissIsolation ==
    /\ [][\A c \in ConnIds : PullMissStep(c) =>
            /\ conns'[c].toC = Append(conns[c].toC, NOT_FOUND)
            /\ conns'[c].sEnd = "closed"
            /\ store' = store
            /\ \A b \in ConnIds \ {c} : conns'[b] = conns[b]]_vars
    /\ [][\A c \in ConnIds : PullNotFoundStep(c) =>
            /\ conns'[c].result = "False"
            /\ conns[c].name \notin DOMAIN downloads'
            /\ store' = store]_vars

\* a pull that missed and returned False, and a later connection served in full
C9_Witness ==
    \E c, b \in ConnIds :
        /\ c < b
        /\ conns[c].kind = "pull" /\ conns[c].result = "False"
        /\ conns[c].name \notin DOMAIN store[ThePeer]
        /\ conns[c].name \notin DOMAIN downloads
        /\ conns[b].kind = "push" /\ conns[b].result = "sent" /\ conns[b].spc = "done"
        /\ conns[b].name \in DOMAIN store[ThePeer]
        /\ store[ThePeer][conns[b].name] = conns[b].data

-----------------------------------------------------------------------------
(* Claims about the sender *)

\* the peers alice connected to, one entry per connection, in order
Contacted == [i \in DOMAIN aliceLog |-> aliceLog[i].peer]

\* C10: for a registry listing of n peers the sender pushes to exactly the
\* first min(2, n) peers of the listing, in listing order, and never contacts
\* a peer beyond that prefix.  At every moment of a run: each connection made
\* so far went to one of the first min(2, n) peers of the listing received,
\* the peers contacted so far are, in the order of their first contact, the
\* first ones of the listing, no peer is returned to once a later one has
\* been contacted, and when the run has ended every one of the first
\* min(2, n) peers has been contacted.
C10_SenderSelection ==
    LET n == Len(alicePeers)
        k == IF n < 2 THEN n ELSE 2
        order == FirstSeen(Contacted)
    IN  /\ \A i \in DOMAIN Contacted : \E j \in 1..k : Contacted[i] = alicePeers[j]
        /\ Len(order) <= k
        /\ \A j \in DOMAIN order : order[j] = alicePeers[j]
        /\ \A i, j \in DOMAIN Contacted :
              i < j /\ Contacted[j] = alicePeers[1] => Contacted[i] = alicePeers[1]
        /\ alicePc = "done" => Len(order) = k

\* a run over a listing of three peers has ended: the first two were pushed
\* to, some pushes failed
C10_Witness ==
    /\ alicePc = "done"
    /\ Len(alicePeers) = 3
    /\ FirstSeen(Contacted) = <<alicePeers[1], alicePeers[2]>>
    /\ \E i \in DOMAIN aliceLog : aliceLog[i].outcome # "sent"

\* has alice made a push connection to peer p for the chunk file name
Attempted(p, name) ==
    \E i \in DOMAIN aliceLog : aliceLog[i].peer = p /\ aliceLog[i].chunk = name

\* C11: whatever connect, send and receive failures and rejected handshakes
\* the pushes meet, the sender attempts every chunk and the metadata with every
\* selected peer, and the run never aborts for a failed push.  When
\* send_chunks_to_peer has returned, every file of the chunk directory has
\* been attempted with its peer; when the run has ended, every file has been
\* attempted with each of the first min(2, n) peers; and no step takes a run
\* that has begun to push to the exit.
C11_SenderFailureIsolation ==
    /\ [](/\ (alicePc = "peers" /\ aliceCur # "") =>
                 \A name \in DOMAIN chunksDir : Attempted(aliceCur, name)
          /\ alicePc = "done" =>
                 \A j \in 1..Min(2, Len(alicePeers)), name \in DOMAIN chunksDir :
                     Attempted(alicePeers[j], name))
    /\ [][(alicePc = "peers" \/ alicePc = "chunks") => alicePc' # "exit"]_vars

\* a run has ended in which the three pushes to the first peer failed, each
\* in its own way, and the three pushes to the second peer were made
C11_Witness ==
    /\ alicePc = "done"
    /\ Len(alicePeers) >= 2
    /\ Len(aliceLog) = 6
    /\ aliceLog[1].outcome = "refused"
    /\ aliceLog[2].outcome = "no_ack"
    /\ aliceLog[3].outcome = "error"
    /\ \A i \in 1..3 : aliceLog[i].peer = alicePeers[1]
    /\ \A i \in 4..6 : aliceLog[i].peer = alicePeers[2] /\ aliceLog[i].outcome = "sent"

-----------------------------------------------------------------------------
(* Claims about the receiver *)

\* the place of peer p in the list bob received
PlaceOf(p) == CHOOSE i \in DOMAIN bobPeers : bobPeers[i] = p

\* C12: within one receiver run the peers are processed one after another in
\* listing order, a chunk name is requested from a peer only if it is not yet
\* in the downloaded-set, and a name downloaded successfully is never
\* requested again from any peer.  The peers asked for their list so far are
\* the first ones of the peer list, in order; every download was made from
\* the peer asked last at that moment, so the downloads follow the listing
\* order; the downloaded-set holds exactly the names of the downloads that
\* succeeded; and no download of a name follows a successful one of it.
C12_ReceiverDedup ==
    /\ Len(bobListed) <= Len(bobPeers)
    /\ \A i \in DOMAIN bobListed : bobListed[i] = bobPeers[i]
    /\ \A i \in DOMAIN bobLog : \E j \in DOMAIN bobListed : bobLog[i].peer = bobListed[j]
    /\ \A i, j \in DOMAIN bobLog :
          i < j => PlaceOf(bobLog[i].peer) <= PlaceOf(bobLog[j].peer)
    /\ bobDownloaded = {bobLog[i].chunk : i \in {j \in DOMAIN bobLog : bobLog[j].ok}}
    /\ \A i, j \in DOMAIN bobLog :
          (i < j /\ bobLog[i].chunk = bobLog[j].chunk) => ~bobLog[i].ok

\* both peers hold the chunk and the metadata; bob downloaded the chunk from
\* the first, failed to get the metadata there, and asked the second for the
\* metadata only
C12_Witness ==
    /\ bobPc = "fetched"
    /\ Len(bobPeers) = 2
    /\ bobListed = bobPeers
    /\ store[bobPeers[1]] = RecvFull /\ store[bobPeers[2]] = RecvFull
    /\ \E i \in DOMAIN bobLog :
          bobLog[i] = [peer |-> bobPeers[1], chunk |-> ChunkName(0),
                       outcome |-> "served", ok |-> TRUE]
    /\ \E i \in DOMAIN bobLog :
          bobLog[i].peer = bobPeers[1] /\ bobLog[i].chunk = METADATA_NAME /\ ~bobLog[i].ok
    /\ \E i \in DOMAIN bobLog :
          bobLog[i] = [peer |-> bobPeers[2], chunk |-> METADATA_NAME,
                       outcome |-> "served", ok |-> TRUE]
    /\ Len(bobLog) = 3

\* a download whose connection was lost before any byte of the chunk arrived
\* has returned False
LostBeforeDataFails ==
    \A i \in DOMAIN bobLog :
        bobLog[i].outcome \in {"refused", "no_ack", "reset"} => ~bobLog[i].ok

\* a download whose connection ended in the middle of the chunk has returned
\* False
LostInDataFails ==
    \A i \in DOMAIN bobLog : bobLog[i].outcome = "cut" => ~bobLog[i].ok

\* C13: if a peer shuts down between answering the list request and the pull
\* of one of its chunks, or at any other point, the connection failure is
\* caught, that pull is reported as failed, and the receiver goes on to the
\* remaining chunks and peers.  Every download whose connection was lost has
\* returned False, and a run that has begun the loop over the peers is in
\* that loop, at reconstruct_file or at its end.
C13_ReceiverSurvivesPeerLoss ==
    /\ LostBeforeDataFails
    /\ LostInDataFails
    /\ bobLog # <<>> => bobPc \in {"peers", "chunks", "fetched", "done", "exit", "blocked"}

\* the loop over the peers is behind: every peer of the list was asked for
\* its listing, in order, and no listing is being worked on
PeersExhausted ==
    /\ bobListed = bobPeers
    /\ bobTodo = <<>>
    /\ bobQueue = <<>>

\* one round of the loop over a listing: the name at its head is either in
\* the downloaded-set already or attempted, the attempt being logged
ChunkRoundAttempts ==
    (bobPc = "chunks" /\ bobQueue' # bobQueue /\ bobPc' # "blocked") =>
        /\ bobQueue # <<>>
        /\ bobQueue' = Tail(bobQueue)
        /\ \/ Head(bobQueue) \in bobDownloaded
           \/ /\ Len(bobLog') = Len(bobLog) + 1
              /\ bobLog'[Len(bobLog')].chunk = Head(bobQueue)
              /\ bobLog'[Len(bobLog')].peer = bobCur

\* a listing is left for the next peer only when it is used up
ListingUsedUp ==
    (bobPc = "chunks" /\ bobPc' = "peers") => bobQueue = <<>>

\* reconstruct_file runs from the end of the loop over the peers and at no
\* other moment, and a run that called it does not call it again
ReconstructOnce ==
    /\ (reconRet' # reconRet \/ (bobPc' = "done" /\ bobPc # "done")) =>
           (bobPc = "fetched" /\ bobPc' = "done" /\ reconRet = "none")
    /\ bobPc = "done" => bobPc' = "done"
    /\ bobPc = "exit" => bobPc' = "exit"

\* C22: in a receiver run that obtained a non-empty peer list, the
\* Reconstructor is invoked at most once, and only after every peer of the
\* list has been asked for its listing and every listed chunk name not yet
\* downloaded has been attempted; a run that has reached the end of the loop
\* over the peers invokes it exactly once when at least one name was
\* downloaded, and not at all when none was.
C22_ReconstructorInvocation ==
    /\ [](bobPc \in {"fetched", "done"} =>
            (bobPeers # <<>> /\ PeersExhausted /\ bobDownloaded # {}))
    /\ [](bobPc = "fetched" => reconRet = "none")
    /\ [](bobPc = "done" => reconRet \in {"True", "False"})
    /\ [](bobPc = "exit" /\ bobPeers # <<>> =>
            (PeersExhausted /\ bobDownloaded = {} /\ reconRet = "none"))
    /\ [][ChunkRoundAttempts /\ ListingUsedUp /\ ReconstructOnce]_vars

\* two peers were asked, one download failed and one succeeded, and
\* reconstruct_file has run
C22_Witness ==
    /\ bobPc = "done"
    /\ Len(bobPeers) = 2
    /\ bobListed = bobPeers
    /\ \E i, j \in DOMAIN bobLog : ~bobLog[i].ok /\ bobLog[j].ok
    /\ reconRet = "True"

\* C22 as stated: every run that obtained a non-empty peer list and has
\* ended has invoked the Reconstructor
C22_AlwaysInvoked ==
    (bobPc \in {"done", "exit"} /\ bobPeers # <<>>) => reconRet # "none"

\* the last download of a name that the log holds
LastAttempt(name) ==
    LET at == {i \in DOMAIN bobLog : bobLog[i].chunk = name}
    IN  CHOOSE i \in at : \A j \in at : j <= i

\* a name whose last download returned False has no file in DOWNLOAD_DIR
FailedLeavesNoFile ==
    \A i \in DOMAIN bobLog :
        (i = LastAttempt(bobLog[i].chunk) /\ ~bobLog[i].ok) =>
            bobLog[i].chunk \notin DOMAIN downloads

\* C23: whenever download_chunk returned False for a chunk name, no file
\* with that name remains in the download directory; hence when
\* reconstruct_file runs, the chunk files in the download directory are
\* names of the downloaded-set.
C23_NoResidue ==
    /\ bobPc \in {"peers", "chunks", "fetched", "exit"} => FailedLeavesNoFile
    /\ bobPc = "fetched" => ChunkFilesIn(downloads) \subseteq bobDownloaded

-----------------------------------------------------------------------------
(* Claims about reconstruct_file on an incomplete set of chunks *)

\* the metadata in DOWNLOAD_DIR declares chunk_count = n and some index in
\* [0, n) has no chunk file there
IncompleteSet ==
    /\ METADATA_NAME \in DOMAIN downloads
    /\ MetadataValid(downloads[METADATA_NAME])
    /\ \E i \in 0..(MetadataLoad(downloads[METADATA_NAME]).chunk_count - 1) :
          ChunkName(i) \notin DOMAIN downloads

\* C14: whenever the metadata declares chunk_count = n and at least one index
\* in [0, n) has no chunk file in the download directory, reconstruct_file
\* returns a failure and produces no output file from the chunks present.
C14_IncompleteSetFails ==
    (bobPc = "done" /\ IncompleteSet) =>
        /\ reconRet = "False"
        /\ SRC_BASENAME \notin DOMAIN downloads

-----------------------------------------------------------------------------
(* Claims about the sender and an empty source file *)

\* C15: when the source file is zero bytes, the split yields zero chunks with
\* chunk_count = 0 and the sender treats this as an error: it stops before it
\* fetches the peer list and never opens a push connection.  Once split_file
\* has run on an empty file, the chunk directory holds no chunk file, the
\* metadata says chunk_count = 0, the run is at the split or has exited, and
\* no connection to a peer has been made.
C15_EmptyInput ==
    (srcExists /\ srcFile = <<>> /\ alicePc # "start") =>
        /\ ChunkFilesIn(chunksDir) = {}
        /\ MetadataLoad(chunksDir[METADATA_NAME]).chunk_count = 0
        /\ alicePc \in {"split", "exit"}
        /\ aliceLog = <<>>

-----------------------------------------------------------------------------
(* Claims about termination *)

\* C16: a sender run terminates even when the tracker or a peer accepts the
\* connection and then never sends a reply; no network read blocks for ever.
\* Every run of the sender comes to its end, the normal one or an exit.
C16_SenderTerminates == <>(alicePc \in {"done", "exit"})

-----------------------------------------------------------------------------
(* Claims about a whole distribution and retrieval *)

\* the successful downloads of the chunk file name
DownloadsOf(name) == {i \in DOMAIN bobLog : bobLog[i].chunk = name /\ bobLog[i].ok}

-----------------------------------------------------------------------------
(* Claims about the life of a connection *)

\* C18: every accepted connection is used for one request and every path
\* through the handler, an unknown request and a handler exception included,
\* ends with the connection closed.  For the tracker: every step the loop
\* body takes with a connection in hand ends with that connection closed.
C18_OneRequestThenClosed ==
    [][(tconn # NoConn /\ backlog' = backlog) => tconn' = NoConn]_vars

\* what was registered is still registered, at the same place
PeerListIntact ==
    /\ Len(peers') >= Len(peers)
    /\ \A i \in DOMAIN peers : peers'[i] = peers[i]

\* C25: after handling any single request (GET_PEERS, REGISTER_PEER with an
\* address, REGISTER_PEER with no payload, an empty message, an unknown
\* request) the tracker has closed that connection and is back at accept
\* with its peer list intact; no request stops the accept loop.
C25_TrackerKeepsServing ==
    [][(trackerUp /\ tconn # NoConn /\ backlog' = backlog) =>
          (trackerUp' /\ tconn' = NoConn /\ PeerListIntact)]_vars

-----------------------------------------------------------------------------
(* Claims about repeated splits *)

\* the bytes of chunk i of file f cut in pieces of the given size
ChunkOf(f, i, size) == SubSeq(f, i * size + 1, Min((i + 1) * size, Len(f)))

\* C27: after any sequence of split_file calls, when the latest call has
\* completed for an existing file F, the chunk directory holds exactly
\* chunk_0 .. chunk_{n-1} of F and F's metadata file, and nothing of an
\* earlier split; the list the call returned, and so what
\* send_chunks_to_peer finds in the directory, names these files only.
C27_NoStaleChunks ==
    (alicePc = "split" /\ srcExists) =>
        LET n == CeilDiv(Len(srcFile), chunkSize)
        IN  /\ DOMAIN chunksDir = {ChunkName(i) : i \in 0..(n - 1)} \cup {METADATA_NAME}
            /\ \A i \in 0..(n - 1) :
                  chunksDir[ChunkName(i)] = ChunkOf(srcFile, i, chunkSize)
            /\ MetadataValid(chunksDir[METADATA_NAME])
            /\ MetadataLoad(chunksDir[METADATA_NAME]).chunk_count = n
            /\ MetadataLoad(chunksDir[METADATA_NAME]).size = Len(srcFile)
            /\ Range(splitRet) = DOMAIN chunksDir

\* the call before had left more chunks than the latest file has, and a
\* chunk of other bytes under a name the latest split wrote
C27_Witness ==
    /\ alicePc = "split" /\ srcExists
    /\ ChunkName(0) \in DOMAIN chunksDir
    /\ ChunkName(0) \in DOMAIN splitFrom
    /\ splitFrom[ChunkName(0)] # chunksDir[ChunkName(0)]
    /\ \E name \in ChunkFilesIn(splitFrom) : name \notin DOMAIN chunksDir

-----------------------------------------------------------------------------
(* Claims about what a request may change *)

\* the request in hand is REGISTER_PEER with an address
IsRegister(request) == Len(request) = 2 /\ request[1] = "REGISTER_PEER"

\* the tracker's list changes only in the handling of REGISTER_PEER
TrackerFrame ==
    /\ peers' # peers => (tconn # NoConn /\ IsRegister(tconn.req))
    /\ (tconn # NoConn /\ tconn' = NoConn /\ ~IsRegister(tconn.req)) => peers' = peers

\* the peer's store changes only in a step of the handler of a push, and no
\* step of a REQUEST_CHUNKS, REQUEST_CHUNK or unknown-request connection
\* changes it
PeerFrame ==
    /\ store' # store =>
          \E c \in ConnIds :
              /\ conns[c].kind = "push"
              /\ conns[c].spc \in {"push_name", "push_data"}
              /\ conns'[c] # conns[c]
    /\ \A c \in ConnIds :
          (conns[c].kind \in {"list", "pull", "other"} /\ conns'[c] # conns[c])
              => store' = store

\* C26: GET_PEERS and unknown requests leave the tracker's peer list
\* unchanged; REQUEST_CHUNKS, REQUEST_CHUNK (hit or miss) and unknown
\* requests leave the chunk names and the bytes stored at a peer unchanged.
\* Only REGISTER_PEER changes the registry and only READY_TO_SEND changes a
\* peer's store.
C26_ReadOnlyRequests == [][TrackerFrame /\ PeerFrame]_vars

\* a pull was answered with the bytes of a stored chunk and the store still
\* holds them
C26_Witness ==
    \E c \in ConnIds :
        /\ conns[c].kind = "pull" /\ conns[c].spc = "done"
        /\ conns[c].toC # <<>>
        /\ conns[c].name \in DOMAIN store[ThePeer]
        /\ PullReply(conns[c]) = store[ThePeer][conns[c].name]
        /\ PullReply(conns[c]) \in Payloads

-----------------------------------------------------------------------------
(* Claims about the push exchange *)

\* the push connections
PushConns == {c \in ConnIds : conns[c].kind = "push"}

\* the client of connection c puts bytes on the stream in this step
ClientSends(c) == Len(conns'[c].toS) > Len(conns[c].toS)

\* C19: in every push connection the initiator sends the chunk name and the
\* payload only after it has received READY_ACK; if the reply is anything
\* else, or the connection is dropped, it sends neither and does not count
\* the chunk as sent; the responder writes the file only after it has sent
\* the ack and received the name; and the end of the data is the initiator
\* closing its write side after the last payload byte.
C19_PushFlowOrdering ==
    /\ [](\A c \in PushConns :
            LET k == conns[c]
            IN  /\ k.result = "skipped" => (k.sent = 0 /\ k.toS = <<>> /\ k.fname = <<>>)
                /\ k.result = "sent" => (k.cEnd = "fin" /\ k.sent = Len(k.data))
                /\ k.spc = "recv_req" => (k.cpc = "wait" \/ k.result = "aborted")
                /\ k.fname # <<>> => k.spc \in {"push_data", "done"})
    /\ [][\A c \in PushConns :
            /\ ClientSends(c) =>
                  \/ conns[c].cpc = "send"
                  \/ conns[c].cpc = "wait" /\ conns[c].toC # <<>>
                                          /\ Head(conns[c].toC) = READY_ACK
            /\ (conns[c].spc = "push_data" /\ conns'[c].spc = "done") =>
                  (conns[c].toS = <<>> /\ conns[c].cEnd # "open")]_vars
    /\ [][store' # store =>
            \E c \in PushConns :
                \/ conns[c].spc = "push_name" /\ conns[c].toS # <<>>
                \/ conns[c].spc = "push_data"]_vars

\* one push was dropped by the peer and skipped by the sender, another went
\* through: the ack, the name, the payload, the end of the stream
C19_Witness ==
    \E b, c \in PushConns :
        /\ conns[b].result = "skipped" /\ conns[b].spc = "done"
        /\ conns[c].result = "sent" /\ conns[c].spc = "done"
        /\ conns[c].fname = conns[c].name
        /\ conns[c].name \in DOMAIN store[ThePeer]
        /\ store[ThePeer][conns[c].name] = conns[c].data

\* the push of connection c went through and no other push was made for the
\* same name
PushedAlone(c) ==
    /\ conns[c].kind = "push"
    /\ conns[c].result = "sent"
    /\ conns[c].spc = "done"
    /\ \A b \in PushConns \ {c} : conns[b].name # conns[c].name

\* C20: after a push of (name, payload) has completed without error, the peer
\* stores the payload under exactly the name the initiator sent, and a pull of
\* that name returns exactly the pushed bytes, however the stream of the
\* connection was cut into pieces between the sender's writes and the
\* receiver's reads.
C20_PushThenPull ==
    \A c \in ConnIds :
        PushedAlone(c) =>
            /\ conns[c].fname = conns[c].name
            /\ conns[c].name \in DOMAIN store[conns[c].peer]
            /\ ServeChunk(store[conns[c].peer], conns[c].name) = conns[c].data

-----------------------------------------------------------------------------
(* Claims about retries *)

\* no two entries of the log are about the same peer and the same chunk name
OncePerPeerAndChunk(log) ==
    \A i, j \in DOMAIN log :
        (log[i].peer = log[j].peer /\ log[i].chunk = log[j].chunk) => i = j

\* C21: within a single run the sender makes at most one push attempt per
\* (selected peer, chunk) pair and the receiver at most one pull attempt per
\* (peer, chunk name) pair; a failed or rejected exchange is never attempted
\* again with the same peer.
C21_NoRetry ==
    /\ OncePerPeerAndChunk(aliceLog)
    /\ OncePerPeerAndChunk(bobLog)

\* both runs are over: a push of alice's was refused and one not
\* acknowledged, a download of bob's failed at the first peer and the name
\* was then downloaded from the second
C21_Witness ==
    /\ alicePc = "done"
    /\ bobPc = "done"
    /\ \E i \in DOMAIN aliceLog : aliceLog[i].outcome = "refused"
    /\ \E i \in DOMAIN aliceLog : aliceLog[i].outcome = "no_ack"
    /\ \E i, j \in DOMAIN bobLog :
          /\ i < j
          /\ bobLog[i].chunk = bobLog[j].chunk
          /\ bobLog[i].peer # bobLog[j].peer
          /\ ~bobLog[i].ok
          /\ bobLog[j].ok

====
